---- MODULE Spec2Model ----
(***************************************************************************)
(* rusty-bank: the Account aggregate (domain/account.rs), the money value  *)
(* (domain/euro_cent.rs), the LRU cache account factory                    *)
(* (infra/account/lru_cache_factory.rs), the account ids projection        *)
(* (infra/account/in_mem_ids_projection.rs) and the request handlers       *)
(* (infra/server.rs).                                                      *)
(***************************************************************************)
EXTENDS Integers, Sequences, FiniteSets, TLC

(***************************************************************************)
(* Bounds of the model.                                                    *)
(***************************************************************************)
\* EuroCent wraps a u64; the model keeps the wrap-around with a narrower word.
U64Bits == 3
\* Number of commands one aggregate instance is given in SpecAccount.
MaxCmds == 4
\* Operation / account uuids used in the commands of SpecAccount.
NumUuids == 2

\* Account ids the callers of the factory ask for.
NumAccountIds == 3
\* Concurrent callers of LruCacheAccountFactory::get.
NumCallers == 2
\* Number of persisted events one aggregate instance replays in SpecFold.
MaxEvts == 2
\* Number of requests the server is sent in SpecServer.
MaxRequests == 3
\* Number of events the log is given in SpecProjection.
MaxLogLen == 3
\* Config of the factory: cache-capacity, cache-buffer, entity-cmd-buffer and
\* entity-snapshot-after (0 is None).
cache_capacity == 2
cache_buffer == 1
entity_cmd_buffer == 1
entity_snapshot_after == 0

U64Modulus == 2 ^ U64Bits
U64Max == U64Modulus - 1
Uuids == 1 .. NumUuids
\* Amounts of the commands: the small ones and the largest representable one.
Amounts == {0, 1, 2, U64Max}
AccountIds == 1 .. NumAccountIds
Callers == 1 .. NumCallers
\* Amounts of the deposit and withdraw requests of SpecServer.
RequestAmounts == {1, 2}

VARIABLES
    overflow_checks,   \* build profile: TRUE = arithmetic overflow panics, FALSE = wraps
    account,           \* SpecAccount: the Account struct of one entity
    pending,           \* SpecAccount: event emitted by handle_cmd, not yet folded
    acc_last,          \* SpecAccount: the last call and its outcome
    acc_panicked,      \* SpecAccount: handle_evt panicked, the entity is gone
    acc_hist,          \* SpecAccount: history of the accepted commands
    accounts,          \* factory: the LruCache, most recently used entry first
    get_account_chan,  \* factory: the mpsc channel of (id, account_sdr) requests
    worker,            \* factory: the task spawned by LruCacheAccountFactory::spawn
    account_rcv,       \* factory: per caller, the value sent into its oneshot channel
    entities,          \* factory: the Account of every entity spawned and not pruned
    callers,           \* the tasks that call get()
    fac_hist,          \* factory: history of gets, uses, evictions and spawn attempts
    evt_log,           \* the event log: persisted events with entity id and tag
    cmd_chan,          \* server: commands sent to entities and not yet handled
    cmd_rcv,           \* server: per request handler, the reply of the entity
    requests,          \* server: per request handler, its request and response
    projection,        \* the InMemAccountIdsProjection and its task
    shutdown_signal,   \* lib.rs: the future given to with_graceful_shutdown
    srv_hist           \* server: requests started, ids generated

acc_vars == <<overflow_checks, account, pending, acc_last, acc_panicked, acc_hist>>

fac_vars == <<accounts, get_account_chan, worker, account_rcv, entities, callers, fac_hist>>

srv_vars == <<evt_log, cmd_chan, cmd_rcv, requests, projection, shutdown_signal, srv_hist>>

vars == <<acc_vars, fac_vars, srv_vars>>

\* What the steps of the aggregate of SpecAccount, and of the factory, leave alone.
acc_frame == <<fac_vars, srv_vars>>
fac_frame == <<acc_vars, srv_vars>>

(***************************************************************************)
(* domain/euro_cent.rs                                                     *)
(***************************************************************************)
\* `+` of u64: panics with overflow checks, wraps without.
EuroCentAdd(a, b, checks) ==
    IF a + b > U64Max
    THEN [panic |-> checks, value |-> (a + b) % U64Modulus]
    ELSE [panic |-> FALSE, value |-> a + b]

\* `-` of u64: panics with overflow checks, wraps without.
EuroCentSub(a, b, checks) ==
    IF a < b
    THEN [panic |-> checks, value |-> (a + U64Modulus - b) % U64Modulus]
    ELSE [panic |-> FALSE, value |-> a - b]

(***************************************************************************)
(* domain/account.rs: values                                               *)
(***************************************************************************)
ACCOUNT_LIFECYCLE_TAG == "account-lifecycle"
NoTag == "none"
NoId == 0

NonExistent == [tag |-> "NonExistent", id |-> NoId, balance |-> 0]
StateCreated(id, balance) == [tag |-> "Created", id |-> id, balance |-> balance]

CmdCreate(id) == [type |-> "Create", id |-> id, amount |-> 0]
CmdDeposit(id, amount) == [type |-> "Deposit", id |-> id, amount |-> amount]
CmdWithdraw(id, amount) == [type |-> "Withdraw", id |-> id, amount |-> amount]
Cmds ==
    {CmdCreate(u) : u \in Uuids}
        \cup {CmdDeposit(u, a) : u \in Uuids, a \in Amounts}
        \cup {CmdWithdraw(u, a) : u \in Uuids, a \in Amounts}

NoEvt == [type |-> "None", id |-> NoId, old_balance |-> 0, amount |-> 0]
EvtCreated(id) == [type |-> "Created", id |-> id, old_balance |-> 0, amount |-> 0]
EvtDeposited(id, old_balance, amount) ==
    [type |-> "Deposited", id |-> id, old_balance |-> old_balance, amount |-> amount]
EvtWithdrawn(id, old_balance, amount) ==
    [type |-> "Withdrawn", id |-> id, old_balance |-> old_balance, amount |-> amount]

NoError == [type |-> "None", balance |-> 0, withdraw_amount |-> 0]
InvalidWithdraw(balance, withdraw_amount) ==
    [type |-> "InvalidWithdraw", balance |-> balance, withdraw_amount |-> withdraw_amount]
NotYetCreated == [type |-> "NotYetCreated", balance |-> 0, withdraw_amount |-> 0]
AlreadyCreated == [type |-> "AlreadyCreated", balance |-> 0, withdraw_amount |-> 0]

CmdOk(evt, tag) == [ok |-> TRUE, evt |-> evt, tag |-> tag, err |-> NoError]
CmdErr(err) == [ok |-> FALSE, evt |-> NoEvt, tag |-> NoTag, err |-> err]
NoResult == [ok |-> FALSE, evt |-> NoEvt, tag |-> NoTag, err |-> NoError]

\* Option<NonZeroU64> of the snapshot cadence: 0 is None.
NoSnapshotAfter == 0
NoSnapshot == [some |-> FALSE, state |-> NonExistent]
SomeSnapshot(state) == [some |-> TRUE, state |-> state]

\* Account::default()
AccountDefault == [snapshot_after |-> NoSnapshotAfter, state |-> NonExistent, evt_count |-> 0]

with_snapshot_after(self, snapshot_after) ==
    [self EXCEPT !.snapshot_after = snapshot_after]

(***************************************************************************)
(* domain/account.rs: the command handler and the event handler            *)
(***************************************************************************)
\* handle_cmd with the withdraw guard `balance <= amount`.
handle_cmd_withdraw_le(self, cmd) ==
    IF self.state.tag = "NonExistent"
    THEN IF cmd.type = "Create"
         THEN CmdOk(EvtCreated(cmd.id), ACCOUNT_LIFECYCLE_TAG)
         ELSE CmdErr(NotYetCreated)
    ELSE IF cmd.type = "Deposit"
         THEN CmdOk(EvtDeposited(cmd.id, self.state.balance, cmd.amount), NoTag)
         ELSE IF cmd.type = "Withdraw" /\ self.state.balance <= cmd.amount
              THEN CmdErr(InvalidWithdraw(self.state.balance, cmd.amount))
              ELSE IF cmd.type = "Withdraw"
                   THEN CmdOk(EvtWithdrawn(cmd.id, self.state.balance, cmd.amount), NoTag)
                   ELSE CmdErr(AlreadyCreated)

\* handle_cmd without the state in the match of Create.
handle_cmd_create_anywhere(self, cmd) ==
    IF cmd.type = "Create"
    THEN CmdOk(EvtCreated(cmd.id), ACCOUNT_LIFECYCLE_TAG)
    ELSE IF self.state.tag = "NonExistent"
         THEN CmdErr(NotYetCreated)
         ELSE IF cmd.type = "Deposit"
              THEN CmdOk(EvtDeposited(cmd.id, self.state.balance, cmd.amount), NoTag)
              ELSE IF self.state.balance < cmd.amount
                   THEN CmdErr(InvalidWithdraw(self.state.balance, cmd.amount))
                   ELSE CmdOk(EvtWithdrawn(cmd.id, self.state.balance, cmd.amount), NoTag)

\* handle_cmd without the NonExistent arm for the other commands.
handle_cmd_no_not_yet_created(self, cmd) ==
    IF cmd.type = "Create"
    THEN IF self.state.tag = "NonExistent"
         THEN CmdOk(EvtCreated(cmd.id), ACCOUNT_LIFECYCLE_TAG)
         ELSE CmdErr(AlreadyCreated)
    ELSE IF cmd.type = "Deposit"
         THEN CmdOk(EvtDeposited(cmd.id, self.state.balance, cmd.amount), NoTag)
         ELSE IF self.state.balance < cmd.amount
              THEN CmdErr(InvalidWithdraw(self.state.balance, cmd.amount))
              ELSE CmdOk(EvtWithdrawn(cmd.id, self.state.balance, cmd.amount), NoTag)

\* handle_cmd recording the balance after the booking as old_balance.
handle_cmd_new_balance(self, cmd) ==
    IF self.state.tag = "NonExistent"
    THEN IF cmd.type = "Create"
         THEN CmdOk(EvtCreated(cmd.id), ACCOUNT_LIFECYCLE_TAG)
         ELSE CmdErr(NotYetCreated)
    ELSE IF cmd.type = "Deposit"
         THEN CmdOk(EvtDeposited(cmd.id, (self.state.balance + cmd.amount) % U64Modulus,
                                 cmd.amount), NoTag)
         ELSE IF cmd.type = "Withdraw" /\ self.state.balance < cmd.amount
              THEN CmdErr(InvalidWithdraw(self.state.balance, cmd.amount))
              ELSE IF cmd.type = "Withdraw"
                   THEN CmdOk(EvtWithdrawn(cmd.id, self.state.balance - cmd.amount,
                                           cmd.amount), NoTag)
                   ELSE CmdErr(AlreadyCreated)

handle_cmd(self, cmd) ==
    IF self.state.tag = "NonExistent"
    THEN IF cmd.type = "Create"
         THEN CmdOk(EvtCreated(cmd.id), ACCOUNT_LIFECYCLE_TAG)
         ELSE CmdErr(NotYetCreated)
    ELSE IF cmd.type = "Deposit"
         THEN CmdOk(EvtDeposited(cmd.id, self.state.balance, cmd.amount), NoTag)
         ELSE IF cmd.type = "Withdraw" /\ self.state.balance < cmd.amount
              THEN CmdErr(InvalidWithdraw(self.state.balance, cmd.amount))
              ELSE IF cmd.type = "Withdraw"
                   THEN CmdOk(EvtWithdrawn(cmd.id, self.state.balance, cmd.amount), NoTag)
                   ELSE CmdErr(AlreadyCreated)

set_state(self, state) == [self EXCEPT !.state = state]

\* evt_match that skips an event that is illegal for the state.
evt_match_skip_illegal(self, evt, checks) ==
    IF self.state.tag = "NonExistent"
    THEN IF evt.type = "Created"
         THEN [panic |-> FALSE, self |-> set_state(self, StateCreated(evt.id, 0))]
         ELSE [panic |-> FALSE, self |-> self]
    ELSE IF evt.type = "Deposited"
         THEN LET sum == EuroCentAdd(self.state.balance, evt.amount, checks)
              IN  IF sum.panic
                  THEN [panic |-> TRUE, self |-> self]
                  ELSE [panic |-> FALSE,
                        self |-> set_state(self, StateCreated(self.state.id, sum.value))]
         ELSE IF evt.type = "Withdrawn"
              THEN LET diff == EuroCentSub(self.state.balance, evt.amount, checks)
                   IN  IF diff.panic
                       THEN [panic |-> TRUE, self |-> self]
                       ELSE [panic |-> FALSE,
                             self |-> set_state(self, StateCreated(self.state.id, diff.value))]
              ELSE [panic |-> FALSE, self |-> self]

\* evt_match whose Deposited and Withdrawn arms bind the id of the event.
evt_match_id_of_evt(self, evt, checks) ==
    IF self.state.tag = "NonExistent"
    THEN IF evt.type = "Created"
         THEN [panic |-> FALSE, self |-> set_state(self, StateCreated(evt.id, 0))]
         ELSE [panic |-> TRUE, self |-> self]
    ELSE IF evt.type = "Deposited"
         THEN LET sum == EuroCentAdd(self.state.balance, evt.amount, checks)
              IN  IF sum.panic
                  THEN [panic |-> TRUE, self |-> self]
                  ELSE [panic |-> FALSE,
                        self |-> set_state(self, StateCreated(evt.id, sum.value))]
         ELSE IF evt.type = "Withdrawn"
              THEN LET diff == EuroCentSub(self.state.balance, evt.amount, checks)
                   IN  IF diff.panic
                       THEN [panic |-> TRUE, self |-> self]
                       ELSE [panic |-> FALSE,
                             self |-> set_state(self, StateCreated(evt.id, diff.value))]
              ELSE [panic |-> TRUE, self |-> self]

\* The match of handle_evt: the new state, or a panic that leaves self untouched.
evt_match(self, evt, checks) ==
    IF self.state.tag = "NonExistent"
    THEN IF evt.type = "Created"
         THEN [panic |-> FALSE, self |-> set_state(self, StateCreated(evt.id, 0))]
         ELSE [panic |-> TRUE, self |-> self]
    ELSE IF evt.type = "Deposited"
         THEN LET sum == EuroCentAdd(self.state.balance, evt.amount, checks)
              IN  IF sum.panic
                  THEN [panic |-> TRUE, self |-> self]
                  ELSE [panic |-> FALSE,
                        self |-> set_state(self, StateCreated(self.state.id, sum.value))]
         ELSE IF evt.type = "Withdrawn"
              THEN LET diff == EuroCentSub(self.state.balance, evt.amount, checks)
                   IN  IF diff.panic
                       THEN [panic |-> TRUE, self |-> self]
                       ELSE [panic |-> FALSE,
                             self |-> set_state(self, StateCreated(self.state.id, diff.value))]
              ELSE [panic |-> TRUE, self |-> self]

\* handle_evt that hands out the state it had before the event.
handle_evt_stale_snapshot(self, evt, checks) ==
    LET m == evt_match(self, evt, checks)
    IN  IF m.panic
        THEN [panic |-> TRUE, self |-> self, snapshot |-> NoSnapshot]
        ELSE LET counted == [m.self EXCEPT !.evt_count = @ + 1]
             IN  [panic |-> FALSE,
                  self |-> counted,
                  snapshot |->
                      IF /\ counted.snapshot_after # NoSnapshotAfter
                         /\ counted.evt_count % counted.snapshot_after = 0
                      THEN SomeSnapshot(self.state)
                      ELSE NoSnapshot]

handle_evt(self, evt, checks) ==
    LET m == evt_match(self, evt, checks)
    IN  IF m.panic
        THEN [panic |-> TRUE, self |-> self, snapshot |-> NoSnapshot]
        ELSE LET counted == [m.self EXCEPT !.evt_count = @ + 1]
             IN  [panic |-> FALSE,
                  self |-> counted,
                  snapshot |->
                      IF /\ counted.snapshot_after # NoSnapshotAfter
                         /\ counted.evt_count % counted.snapshot_after = 0
                      THEN SomeSnapshot(counted.state)
                      ELSE NoSnapshot]

(***************************************************************************)
(* SpecAccount: one aggregate instance, driven the way its entity drives   *)
(* it: handle_cmd, then handle_evt of the emitted event, then the next     *)
(* command.                                                                *)
(***************************************************************************)
SnapshotAfters == {NoSnapshotAfter, 1, 2}

AccLastInit ==
    [op |-> "none", cmd |-> CmdCreate(1), pre |-> AccountDefault, res |-> NoResult,
     evt |-> NoEvt, snapshot |-> NoSnapshot]

AccHistInit == [cmds |-> 0, creates |-> 0, deposits |-> 0, withdraws |-> 0]

AccountInit ==
    /\ overflow_checks \in BOOLEAN
    /\ \E n \in SnapshotAfters : account = with_snapshot_after(AccountDefault, n)
    /\ pending = NoEvt
    /\ acc_last = AccLastInit
    /\ acc_panicked = FALSE
    /\ acc_hist = AccHistInit

\* AccountHandleCmd with a handler that books an accepted withdraw at once.
AccountHandleCmd_booking(cmd) ==
    /\ ~acc_panicked
    /\ pending = NoEvt
    /\ acc_hist.cmds < MaxCmds
    /\ LET res == handle_cmd(account, cmd)
       IN  /\ acc_last' = [op |-> "cmd", cmd |-> cmd, pre |-> account, res |-> res,
                           evt |-> NoEvt, snapshot |-> NoSnapshot]
           /\ pending' = res.evt
           /\ acc_hist' = [acc_hist EXCEPT !.cmds = @ + 1]
           /\ account' =
                 IF res.ok /\ cmd.type = "Withdraw"
                 THEN set_state(account, StateCreated(account.state.id,
                                                      account.state.balance - cmd.amount))
                 ELSE account
    /\ UNCHANGED <<overflow_checks, acc_panicked>>
    /\ UNCHANGED acc_frame

\* The entity receives a command and calls handle_cmd(&self, cmd).
AccountHandleCmd(cmd) ==
    /\ ~acc_panicked
    /\ pending = NoEvt
    /\ acc_hist.cmds < MaxCmds
    /\ LET res == handle_cmd(account, cmd)
       IN  /\ acc_last' = [op |-> "cmd", cmd |-> cmd, pre |-> account, res |-> res,
                           evt |-> NoEvt, snapshot |-> NoSnapshot]
           /\ pending' = res.evt
           /\ acc_hist' =
                 [cmds |-> acc_hist.cmds + 1,
                  creates |-> acc_hist.creates
                                + (IF res.ok /\ cmd.type = "Create" THEN 1 ELSE 0),
                  deposits |-> acc_hist.deposits
                                + (IF res.ok /\ cmd.type = "Deposit" THEN cmd.amount ELSE 0),
                  withdraws |-> acc_hist.withdraws
                                + (IF res.ok /\ cmd.type = "Withdraw" THEN cmd.amount ELSE 0)]
    /\ UNCHANGED <<overflow_checks, account, acc_panicked>>
    /\ UNCHANGED acc_frame

\* The entity folds the emitted event with handle_evt(&mut self, evt).
AccountHandleEvt ==
    /\ ~acc_panicked
    /\ pending # NoEvt
    /\ LET r == handle_evt(account, pending, overflow_checks)
       IN  /\ account' = r.self
           /\ acc_panicked' = r.panic
           /\ acc_last' = [acc_last EXCEPT !.op = IF r.panic THEN "panic" ELSE "evt",
                                           !.evt = pending,
                                           !.snapshot = r.snapshot]
    /\ pending' = NoEvt
    /\ UNCHANGED <<overflow_checks, acc_hist>>
    /\ UNCHANGED acc_frame

AccountNext ==
    \/ \E cmd \in Cmds : AccountHandleCmd(cmd)
    \/ AccountHandleEvt

\* The events an event log can hold for an entity.
Evts ==
    {EvtCreated(u) : u \in Uuids}
        \cup {EvtDeposited(u, 0, a) : u \in Uuids, a \in Amounts}
        \cup {EvtWithdrawn(u, 0, a) : u \in Uuids, a \in Amounts}

\* The entity folds an event it read from the event log with
\* handle_evt(&mut self, evt).
AccountReplayEvt(evt) ==
    /\ ~acc_panicked
    /\ pending = NoEvt
    /\ account.evt_count < MaxEvts
    /\ LET r == handle_evt(account, evt, overflow_checks)
       IN  /\ account' = r.self
           /\ acc_panicked' = r.panic
           /\ acc_last' = [op |-> IF r.panic THEN "panic" ELSE "evt",
                           cmd |-> acc_last.cmd, pre |-> account, res |-> NoResult,
                           evt |-> evt, snapshot |-> r.snapshot]
    /\ UNCHANGED <<overflow_checks, pending, acc_hist>>
    /\ UNCHANGED acc_frame

FoldNext ==
    \/ \E evt \in Evts : AccountReplayEvt(evt)
    \/ \E cmd \in Cmds : AccountHandleCmd(cmd)
    \/ AccountHandleEvt

\* The aggregate at rest, for the specifications that do not drive SpecAccount.
AccountIdle ==
    /\ account = AccountDefault
    /\ pending = NoEvt
    /\ acc_last = AccLastInit
    /\ acc_panicked = FALSE
    /\ acc_hist = AccHistInit

(***************************************************************************)
(* infra/account/lru_cache_factory.rs: EntityRef<Account>. An entity runs  *)
(* until every EntityRef to it is dropped (its command channel closes);    *)
(* `n` tells the entities of one id apart, and the number of an entity     *)
(* that is gone is used again.                                             *)
(***************************************************************************)
NoRef == [id |-> NoId, n |-> 0]
EntityRef(id, n) == [id |-> id, n |-> n]

(***************************************************************************)
(* The LruCache<Uuid, EntityRef<Account>> as the sequence of its values,   *)
(* most recently used first.                                               *)
(***************************************************************************)
LruIds(cache) == {cache[i].id : i \in 1 .. Len(cache)}

LruIndex(cache, id) == CHOOSE i \in 1 .. Len(cache) : cache[i].id = id

\* The EntityRef cached for id.
LruPeek(cache, id) == cache[LruIndex(cache, id)]

\* get_or_insert on a hit without the move to the front.
LruPromote_stay(cache, id) == cache

\* get_or_insert on a hit: the node is detached and attached at the front.
LruPromote(cache, id) ==
    LET i == LruIndex(cache, id)
    IN  <<cache[i]>> \o SubSeq(cache, 1, i - 1) \o SubSeq(cache, i + 1, Len(cache))

\* The entry a full cache gives up: the node at the back of the list.
LruVictim(cache) == cache[Len(cache)]

\* get_or_insert on a miss that never replaces a node.
LruInsert_grow(cache, ref) == <<ref>> \o cache

\* get_or_insert on a miss, once the value is built: a full cache replaces
\* its least recently used node, and the new node is attached at the front.
LruInsert(cache, ref) ==
    <<ref>>
        \o (IF Len(cache) = cache_capacity
            THEN SubSeq(cache, 1, Len(cache) - 1)
            ELSE cache)

(***************************************************************************)
(* Results of get(): Ok(EntityRef) or Err(Error::SpawnEntity)              *)
(***************************************************************************)
NoAccount == [ok |-> FALSE, ref |-> NoRef, err |-> "None"]
AccountOk(ref) == [ok |-> TRUE, ref |-> ref, err |-> "None"]
AccountErr(err) == [ok |-> FALSE, ref |-> NoRef, err |-> err]

\* `alive` is the state of the request's oneshot channel: its receiver exists.
WorkerIdle == [pc |-> "recv", id |-> NoId, caller |-> 0, alive |-> FALSE]

\* A caller: idle, waiting in get() ("rcv"), or using what get() returned
\* ("done"). fresh and peers record how the call was issued.
CallerIdle ==
    [pc |-> "idle", id |-> NoId, held |-> NoRef, got |-> NoAccount,
     fresh |-> FALSE, peers |-> {}]

\* What happened to the id of a caller's get() since the caller issued it
\* (the counts stop at 2), and the order in which the ids were last used.
FacHistInit ==
    [evicted |-> {},
     spawned |-> [c \in Callers |-> 0],
     failed |-> [c \in Callers |-> 0],
     recency |-> <<>>]

FactoryInit ==
    /\ accounts = <<>>
    /\ get_account_chan = <<>>
    /\ worker = WorkerIdle
    /\ account_rcv = [c \in Callers |-> NoAccount]
    /\ entities = <<>>
    /\ callers = [c \in Callers |-> CallerIdle]
    /\ fac_hist = FacHistInit

\* The EntityRefs in existence: in the cache, in an unreceived oneshot value
\* and in the callers. The entities they refer to are the live ones.
LiveEntities ==
    ({accounts[i] : i \in 1 .. Len(accounts)}
        \cup {account_rcv[c].ref : c \in Callers}
        \cup {callers[c].held : c \in Callers}) \ {NoRef}

LiveEntitiesOf(id) == {r \in LiveEntities : r.id = id}

\* Account::spawn starts a new entity of id.
NewEntity(id) ==
    LET used == {r.n : r \in LiveEntitiesOf(id)}
    IN  EntityRef(id, CHOOSE n \in 1 .. Cardinality(used) + 1 :
                          /\ n \notin used
                          /\ \A m \in 1 .. n - 1 : m \in used)

\* The events persisted for the entity id, oldest first.
EvtsOf(log, id) == SelectSeq(log, LAMBDA e : e.id = id)

\* Account::spawn replays the persisted events of the entity into the Account.
RECURSIVE Replay(_, _, _)
Replay(self, evts, checks) ==
    IF evts = <<>>
    THEN self
    ELSE Replay(handle_evt(self, Head(evts).evt, checks).self, Tail(evts), checks)

\* An entity stops when the last EntityRef to it is dropped: the Accounts of
\* the entities that are live after the step.
DropEntities == [r \in LiveEntities' |-> entities[r]]

\* The Accounts of the entities after ref is spawned: the new one has replayed
\* its events.
SpawnAccount(ref) ==
    [r \in LiveEntities' |->
        IF r = ref
        THEN [account |-> Replay(with_snapshot_after(AccountDefault, entity_snapshot_after),
                                 EvtsOf(evt_log, ref.id), overflow_checks),
              panicked |-> FALSE]
        ELSE entities[r]]

\* The callers whose current get() is for id.
CallersOf(id) == {c \in Callers : callers[c].pc # "idle" /\ callers[c].id = id}

Bump(f, cs) == [c \in Callers |-> IF c \in cs /\ f[c] < 2 THEN f[c] + 1 ELSE f[c]]

\* id becomes the most recently used id.
Touch(recency, id) == <<id>> \o SelectSeq(recency, LAMBDA x : x # id)

Forget(c) == [fac_hist EXCEPT !.evicted = @ \ {c}, !.spawned[c] = 0, !.failed[c] = 0]

(***************************************************************************)
(* LruCacheAccountFactory::get, caller side                                *)
(***************************************************************************)
\* get(id): create the oneshot channel and send (id, account_sdr); the send
\* waits while the channel is full and the receiver exists.
GetCall(c, id) ==
    /\ callers[c].pc = "idle"
    /\ worker.pc # "stopped"
    /\ Len(get_account_chan) < cache_buffer
    /\ get_account_chan' = Append(get_account_chan, [id |-> id, caller |-> c, alive |-> TRUE])
    /\ callers' =
          [callers EXCEPT
             ![c] = [pc |-> "rcv", id |-> id, held |-> NoRef, got |-> NoAccount,
                     fresh |-> LiveEntitiesOf(id) = {},
                     peers |-> {e \in Callers \ {c} :
                                  callers[e].pc = "rcv" /\ callers[e].id = id}]]
    /\ UNCHANGED <<accounts, worker, account_rcv, entities, fac_hist>>

\* A caller of the factory calls get(id).
Get(c, id) ==
    /\ GetCall(c, id)
    /\ UNCHANGED fac_frame

\* account_rcv.await resolves with the value the worker sent.
GetReceive(c) ==
    /\ callers[c].pc = "rcv"
    /\ account_rcv[c] # NoAccount
    /\ callers' = [callers EXCEPT ![c].pc = "done",
                                  ![c].got = account_rcv[c],
                                  ![c].held = account_rcv[c].ref]
    /\ account_rcv' = [account_rcv EXCEPT ![c] = NoAccount]
    /\ UNCHANGED <<accounts, get_account_chan, worker, entities, fac_hist>>
    /\ UNCHANGED fac_frame

\* The caller's future is dropped while it waits: the receiver of its oneshot
\* channel is gone, and with it a value already sent.
GetAbandon(c) ==
    /\ callers[c].pc = "rcv"
    /\ callers' = [d \in Callers |->
                      IF d = c THEN CallerIdle ELSE [callers[d] EXCEPT !.peers = @ \ {c}]]
    /\ account_rcv' = [account_rcv EXCEPT ![c] = NoAccount]
    /\ get_account_chan' =
          [i \in 1 .. Len(get_account_chan) |->
              IF get_account_chan[i].caller = c
              THEN [get_account_chan[i] EXCEPT !.alive = FALSE]
              ELSE get_account_chan[i]]
    /\ worker' = IF worker.caller = c THEN [worker EXCEPT !.alive = FALSE] ELSE worker
    /\ fac_hist' = Forget(c)
    /\ UNCHANGED accounts
    /\ entities' = DropEntities
    /\ UNCHANGED fac_frame

\* The caller is through with the result of get() and drops the EntityRef.
DropEntityRef(c) ==
    /\ callers[c].pc = "done"
    /\ callers' = [d \in Callers |->
                      IF d = c THEN CallerIdle ELSE [callers[d] EXCEPT !.peers = @ \ {c}]]
    /\ fac_hist' = Forget(c)
    /\ UNCHANGED <<accounts, get_account_chan, worker, account_rcv>>
    /\ entities' = DropEntities
    /\ UNCHANGED fac_frame

(***************************************************************************)
(* LruCacheAccountFactory::spawn, the worker task                          *)
(***************************************************************************)
\* WorkerRecv with a worker that throws away a request whose account_sdr is
\* closed.
WorkerRecv_skip_abandoned ==
    /\ worker.pc = "recv"
    /\ get_account_chan # <<>>
    /\ LET r == Head(get_account_chan)
       IN  worker' =
              IF r.alive
              THEN [pc |-> "blocking", id |-> r.id, caller |-> r.caller, alive |-> r.alive]
              ELSE WorkerIdle
    /\ get_account_chan' = Tail(get_account_chan)
    /\ UNCHANGED <<accounts, account_rcv, entities, callers, fac_hist>>
    /\ UNCHANGED fac_frame

\* get_account_rcv.recv() yields the next request; the worker starts the
\* blocking task and awaits it.
WorkerRecv ==
    /\ worker.pc = "recv"
    /\ get_account_chan # <<>>
    /\ LET r == Head(get_account_chan)
       IN  worker' = [pc |-> "blocking", id |-> r.id, caller |-> r.caller, alive |-> r.alive]
    /\ get_account_chan' = Tail(get_account_chan)
    /\ UNCHANGED <<accounts, account_rcv, entities, callers, fac_hist>>
    /\ UNCHANGED fac_frame

\* account_sdr.send(account) once the blocking task is joined: the value
\* reaches the oneshot channel, or is dropped when the receiver is gone; the
\* worker goes back to recv().
WorkerSend(result) ==
    /\ account_rcv' =
          IF worker.alive
          THEN [account_rcv EXCEPT ![worker.caller] = result]
          ELSE account_rcv
    /\ worker' = WorkerIdle

\* A hit that spawns a second entity all the same.
GetOrInsertHit_respawn ==
    /\ worker.pc = "blocking"
    /\ worker.id \in LruIds(accounts)
    /\ LET ref == NewEntity(worker.id)
       IN  /\ accounts' = <<ref>> \o SelectSeq(accounts, LAMBDA r : r.id # worker.id)
           /\ WorkerSend(AccountOk(ref))
           /\ UNCHANGED <<get_account_chan, callers>>
           /\ entities' = SpawnAccount(ref)
    /\ fac_hist' = [fac_hist EXCEPT !.recency = Touch(@, worker.id),
                                    !.spawned = Bump(@, CallersOf(worker.id))]
    /\ UNCHANGED fac_frame

\* accounts.write().get_or_insert(id, ..) finds id: the entry becomes the
\* most recently used one and a clone of its EntityRef is sent back.
GetOrInsertHit ==
    /\ worker.pc = "blocking"
    /\ worker.id \in LruIds(accounts)
    /\ accounts' = LruPromote(accounts, worker.id)
    /\ WorkerSend(AccountOk(LruPeek(accounts, worker.id)))
    /\ fac_hist' = [fac_hist EXCEPT !.recency = Touch(@, worker.id)]
    /\ UNCHANGED <<get_account_chan, entities, callers>>
    /\ UNCHANGED fac_frame

\* get_or_insert does not find id and calls the closure, which blocks on
\* Account::spawn.
GetOrInsertMiss ==
    /\ worker.pc = "blocking"
    /\ worker.id \notin LruIds(accounts)
    /\ worker' = [worker EXCEPT !.pc = "spawning"]
    /\ UNCHANGED <<accounts, get_account_chan, account_rcv, entities, callers, fac_hist>>
    /\ UNCHANGED fac_frame

\* Account::spawn returns the EntityRef of a new entity: get_or_insert puts it
\* into the cache, dropping the least recently used entry of a full cache, and
\* a clone is sent back.
SpawnEntityOk ==
    /\ worker.pc = "spawning"
    /\ LET ref == NewEntity(worker.id)
           full == Len(accounts) = cache_capacity
       IN  /\ accounts' = LruInsert(accounts, ref)
           /\ WorkerSend(AccountOk(ref))
           /\ UNCHANGED <<get_account_chan, callers>>
           /\ entities' = SpawnAccount(ref)
           /\ fac_hist' =
                 [fac_hist EXCEPT
                    !.recency = Touch(@, worker.id),
                    !.spawned = Bump(@, CallersOf(worker.id)),
                    !.evicted = IF full
                                THEN @ \cup CallersOf(LruVictim(accounts).id)
                                ELSE @]
    /\ UNCHANGED fac_frame

\* SpawnEntityErr on a cache that makes room for the new entry before the
\* closure is called.
SpawnEntityErr_evict ==
    /\ worker.pc = "spawning"
    /\ accounts' =
          IF Len(accounts) = cache_capacity
          THEN SubSeq(accounts, 1, Len(accounts) - 1)
          ELSE accounts
    /\ WorkerSend(AccountErr("SpawnEntity"))
    /\ fac_hist' = [fac_hist EXCEPT !.failed = Bump(@, CallersOf(worker.id))]
    /\ UNCHANGED <<get_account_chan, callers>>
    /\ entities' = DropEntities
    /\ UNCHANGED fac_frame

\* SpawnEntityErr with the panic of unwrap() reaching the worker task: the
\* error is sent back and the worker ends.
SpawnEntityErr_stops ==
    /\ worker.pc = "spawning"
    /\ account_rcv' =
          IF worker.alive
          THEN [account_rcv EXCEPT ![worker.caller] = AccountErr("SpawnEntity")]
          ELSE account_rcv
    /\ worker' = [pc |-> "stopped", id |-> NoId, caller |-> 0, alive |-> FALSE]
    /\ fac_hist' = [fac_hist EXCEPT !.failed = Bump(@, CallersOf(worker.id))]
    /\ UNCHANGED <<accounts, get_account_chan, entities, callers>>
    /\ UNCHANGED fac_frame

\* Account::spawn fails: unwrap() panics inside the blocking task, the cache
\* is as it was, and the JoinError is sent back as Error::SpawnEntity.
SpawnEntityErr ==
    /\ worker.pc = "spawning"
    /\ WorkerSend(AccountErr("SpawnEntity"))
    /\ fac_hist' = [fac_hist EXCEPT !.failed = Bump(@, CallersOf(worker.id))]
    /\ UNCHANGED <<accounts, get_account_chan, entities, callers>>
    /\ UNCHANGED fac_frame

\* The guard of accounts.write() lives in the blocking task from the call
\* of get_or_insert to its return or its unwinding: a hit takes and drops it
\* in one step, a miss holds it while the closure blocks on Account::spawn.
WriteLockHeld == worker.pc = "spawning"

WorkerNext ==
    \/ WorkerRecv
    \/ GetOrInsertHit
    \/ GetOrInsertMiss
    \/ SpawnEntityOk
    \/ SpawnEntityErr

FactoryNext ==
    \/ \E c \in Callers, id \in AccountIds : Get(c, id)
    \/ \E c \in Callers : GetReceive(c)
    \/ \E c \in Callers : GetAbandon(c)
    \/ \E c \in Callers : DropEntityRef(c)
    \/ WorkerNext

(***************************************************************************)
(* The worker task is dropped (the runtime shuts down) at one of its       *)
(* awaits: get_account_rcv goes with it, and so do the requests still in   *)
(* the channel and the account_sdr of the request in hand. The cache is    *)
(* reachable from the worker only and is not read again.                   *)
(***************************************************************************)
WorkerStopped == [pc |-> "stopped", id |-> NoId, caller |-> 0, alive |-> FALSE]

\* The callers whose account_sdr is in the channel or with the worker.
Unanswered ==
    {get_account_chan[i].caller : i \in 1 .. Len(get_account_chan)}
        \cup (IF worker.pc \in {"blocking", "spawning"} THEN {worker.caller} ELSE {})

\* WorkerStops with a channel that keeps the queued account_sdr alive.
WorkerStops_keep_queued ==
    /\ worker.pc # "stopped"
    /\ worker' = WorkerStopped
    /\ get_account_chan' = <<>>
    /\ account_rcv' =
          [c \in Callers |->
              IF c = worker.caller /\ worker.pc \in {"blocking", "spawning"}
                   /\ callers[c].pc = "rcv" /\ account_rcv[c] = NoAccount
              THEN AccountErr("Rcv")
              ELSE account_rcv[c]]
    /\ UNCHANGED <<accounts, entities, callers, fac_hist>>
    /\ UNCHANGED fac_frame

WorkerStops ==
    /\ worker.pc # "stopped"
    /\ worker' = WorkerStopped
    /\ get_account_chan' = <<>>
    /\ account_rcv' =
          [c \in Callers |->
              IF c \in Unanswered /\ callers[c].pc = "rcv" /\ account_rcv[c] = NoAccount
              THEN AccountErr("Rcv")
              ELSE account_rcv[c]]
    /\ UNCHANGED <<accounts, entities, callers, fac_hist>>
    /\ UNCHANGED fac_frame

\* get(id) on the closed channel: send fails and get returns Error::Send.
GetSendErr(c, id) ==
    /\ callers[c].pc = "idle"
    /\ worker.pc = "stopped"
    /\ callers' = [callers EXCEPT
                      ![c] = [pc |-> "done", id |-> id, held |-> NoRef,
                              got |-> AccountErr("Send"), fresh |-> FALSE, peers |-> {}]]
    /\ UNCHANGED <<accounts, get_account_chan, worker, account_rcv, entities, fac_hist>>
    /\ UNCHANGED fac_frame

FactoryStopNext ==
    \/ \E c \in Callers, id \in AccountIds : Get(c, id)
    \/ \E c \in Callers : GetReceive(c)
    \/ \E c \in Callers : DropEntityRef(c)
    \/ WorkerNext
    \/ WorkerStops
    \/ \E c \in Callers, id \in AccountIds : GetSendErr(c, id)

(***************************************************************************)
(* The event log, the entities' command channels and replies               *)
(***************************************************************************)
\* The events of the tag, in the order they were persisted.
EvtsByTag(log, tag) == SelectSeq(log, LAMBDA e : e.tag = tag)

NoReply == [sent |-> FALSE, lost |-> FALSE, res |-> NoResult]
Reply(res) == [sent |-> TRUE, lost |-> FALSE, res |-> res]
ReplyLost == [sent |-> TRUE, lost |-> TRUE, res |-> NoResult]

NoRequest == [kind |-> "none", id |-> NoId, amount |-> 0, acked |-> FALSE, response |-> "none"]

\* The task of InMemAccountIdsProjection::new before its first step;
\* terminated_rcv is TRUE once the future handed to the owner is resolved.
ProjectionInit == [pc |-> "query", seq |-> 0, account_ids |-> {}, terminated_rcv |-> FALSE]

ServerInit ==
    /\ evt_log = <<>>
    /\ cmd_chan = <<>>
    /\ cmd_rcv = [c \in Callers |-> NoReply]
    /\ requests = [c \in Callers |-> NoRequest]
    /\ projection = ProjectionInit
    /\ shutdown_signal = "pending"
    /\ srv_hist = [started |-> 0, next_id |-> 1, created |-> {}]

(***************************************************************************)
(* infra/account/in_mem_ids_projection.rs                                  *)
(***************************************************************************)
\* AccountIdsProjection::contains
contains(id) == id \in projection.account_ids

\* evts_by_tag(ACCOUNT_LIFECYCLE_TAG, SeqNo::MIN, ..) returns the stream.
ProjectionQuery ==
    /\ projection.pc = "query"
    /\ projection' = [projection EXCEPT !.pc = "running"]
    /\ UNCHANGED <<evt_log, cmd_chan, cmd_rcv, requests, shutdown_signal, srv_hist>>
    /\ UNCHANGED <<acc_vars, fac_vars>>

\* ProjectionQueryErr with a task that ends without sending `terminated` and
\* keeps the sender.
ProjectionQueryErr_silent ==
    /\ projection.pc = "query"
    /\ projection' = [projection EXCEPT !.pc = "terminated"]
    /\ UNCHANGED <<evt_log, cmd_chan, cmd_rcv, requests, shutdown_signal, srv_hist>>
    /\ UNCHANGED <<acc_vars, fac_vars>>

\* evts_by_tag fails: the task logs the error and sends `terminated`.
ProjectionQueryErr ==
    /\ projection.pc = "query"
    /\ projection' = [projection EXCEPT !.pc = "terminated", !.terminated_rcv = TRUE]
    /\ UNCHANGED <<evt_log, cmd_chan, cmd_rcv, requests, shutdown_signal, srv_hist>>
    /\ UNCHANGED <<acc_vars, fac_vars>>

\* ids.next() yields the next event of the tag: Created(id) inserts id, any
\* other item ends the `while let` loop.
ProjectionNext ==
    /\ projection.pc = "running"
    /\ projection.seq < Len(EvtsByTag(evt_log, ACCOUNT_LIFECYCLE_TAG))
    /\ LET evt == EvtsByTag(evt_log, ACCOUNT_LIFECYCLE_TAG)[projection.seq + 1].evt
       IN  projection' =
              IF evt.type = "Created"
              THEN [projection EXCEPT !.seq = @ + 1, !.account_ids = @ \cup {evt.id}]
              ELSE [projection EXCEPT !.seq = @ + 1, !.pc = "terminated",
                                      !.terminated_rcv = TRUE]
    /\ UNCHANGED <<evt_log, cmd_chan, cmd_rcv, requests, shutdown_signal, srv_hist>>
    /\ UNCHANGED <<acc_vars, fac_vars>>

\* ids.next() yields None or an Err item: the loop ends and the task sends
\* `terminated`.
ProjectionStreamEnds ==
    /\ projection.pc = "running"
    /\ projection' = [projection EXCEPT !.pc = "terminated", !.terminated_rcv = TRUE]
    /\ UNCHANGED <<evt_log, cmd_chan, cmd_rcv, requests, shutdown_signal, srv_hist>>
    /\ UNCHANGED <<acc_vars, fac_vars>>

ProjectionStep ==
    \/ ProjectionQuery
    \/ ProjectionQueryErr
    \/ ProjectionNext
    \/ ProjectionStreamEnds

\* The items the stream of evts_by_tag(ACCOUNT_LIFECYCLE_TAG, ..) is typed
\* to deliver: any account::Evt persisted with the tag.
TaggedEvts ==
    {[id |-> id, evt |-> EvtCreated(id), tag |-> ACCOUNT_LIFECYCLE_TAG] : id \in AccountIds}
        \cup {[id |-> 1, evt |-> EvtDeposited(1, 0, 1), tag |-> ACCOUNT_LIFECYCLE_TAG],
               [id |-> 1, evt |-> EvtWithdrawn(1, 1, 1), tag |-> ACCOUNT_LIFECYCLE_TAG]}

\* A writer of the event log persists an event with the lifecycle tag.
EvtLogAppend(e) ==
    /\ Len(evt_log) < MaxLogLen
    /\ evt_log' = Append(evt_log, e)
    /\ UNCHANGED <<cmd_chan, cmd_rcv, requests, projection, shutdown_signal, srv_hist>>
    /\ UNCHANGED <<acc_vars, fac_vars>>

(***************************************************************************)
(* lib.rs: shutdown_signal, the select over the projection's termination   *)
(* future and ctrl-c                                                       *)
(***************************************************************************)
\* The arm `_ = account_ids_projection_terminated`.
shutdown_signal_terminated ==
    /\ shutdown_signal = "pending"
    /\ projection.terminated_rcv
    /\ shutdown_signal' = "projection_terminated"
    /\ UNCHANGED <<evt_log, cmd_chan, cmd_rcv, requests, projection, srv_hist>>
    /\ UNCHANGED <<acc_vars, fac_vars>>

\* The arm `_ = ctrl_c`.
shutdown_signal_ctrl_c ==
    /\ shutdown_signal = "pending"
    /\ shutdown_signal' = "ctrl_c"
    /\ UNCHANGED <<evt_log, cmd_chan, cmd_rcv, requests, projection, srv_hist>>
    /\ UNCHANGED <<acc_vars, fac_vars>>

ShutdownStep ==
    \/ shutdown_signal_terminated
    \/ shutdown_signal_ctrl_c

(***************************************************************************)
(* The entity task of an EntityRef: it takes the commands of its channel   *)
(* in order, persists the event of an accepted command and folds it.       *)
(***************************************************************************)
CmdsFor(ref) == {i \in 1 .. Len(cmd_chan) : cmd_chan[i].ref = ref}

RemoveAt(seq, i) == SubSeq(seq, 1, i - 1) \o SubSeq(seq, i + 1, Len(seq))

EntityHandleCmd ==
    \E ref \in DOMAIN entities :
        /\ CmdsFor(ref) # {}
        /\ LET i == CHOOSE j \in CmdsFor(ref) : \A k \in CmdsFor(ref) : j <= k
               c == cmd_chan[i].caller
               entity == entities[ref]
               res == handle_cmd(entity.account, cmd_chan[i].cmd)
               folded == handle_evt(entity.account, res.evt, overflow_checks)
           IN  /\ cmd_chan' = RemoveAt(cmd_chan, i)
               /\ IF entity.panicked
                  THEN /\ cmd_rcv' = [cmd_rcv EXCEPT ![c] = ReplyLost]
                       /\ UNCHANGED <<evt_log, entities>>
                  ELSE IF res.ok
                       THEN /\ evt_log' = Append(evt_log,
                                                 [id |-> ref.id, evt |-> res.evt, tag |-> res.tag])
                            /\ entities' = [entities EXCEPT
                                               ![ref] = [account |-> folded.self,
                                                         panicked |-> folded.panic]]
                            /\ cmd_rcv' = [cmd_rcv EXCEPT
                                              ![c] = IF folded.panic THEN ReplyLost ELSE Reply(res)]
                       ELSE /\ cmd_rcv' = [cmd_rcv EXCEPT ![c] = Reply(res)]
                            /\ UNCHANGED <<evt_log, entities>>
        /\ UNCHANGED <<accounts, get_account_chan, worker, account_rcv, callers, fac_hist>>
        /\ UNCHANGED <<requests, projection, shutdown_signal, srv_hist>>
        /\ UNCHANGED acc_vars

(***************************************************************************)
(* infra/server.rs: the request handlers                                   *)
(***************************************************************************)
\* The handler returns: its EntityRef is dropped.
HandlerReturns(c, response) ==
    /\ requests' = [requests EXCEPT ![c].response = response]
    /\ callers' = [d \in Callers |->
                      IF d = c THEN CallerIdle ELSE [callers[d] EXCEPT !.peers = @ \ {c}]]
    /\ fac_hist' = Forget(c)

\* POST /accounts: generate the id and get the entity from the factory. The
\* server takes requests until the graceful shutdown starts.
create_account(c) ==
    /\ shutdown_signal = "pending"
    /\ callers[c].pc = "idle"
    /\ srv_hist.started < MaxRequests
    /\ srv_hist.next_id \in AccountIds
    /\ GetCall(c, srv_hist.next_id)
    /\ requests' = [requests EXCEPT
                       ![c] = [kind |-> "create", id |-> srv_hist.next_id, amount |-> 0,
                               acked |-> FALSE, response |-> "none"]]
    /\ srv_hist' = [srv_hist EXCEPT !.started = @ + 1, !.next_id = @ + 1]
    /\ UNCHANGED <<evt_log, cmd_chan, cmd_rcv, projection, shutdown_signal>>
    /\ UNCHANGED acc_vars

\* HandlerStart with handlers that get the entity from the factory before
\* they ask the projection.
HandlerStart_get_first(c, kind, id, amount) ==
    /\ shutdown_signal = "pending"
    /\ callers[c].pc = "idle"
    /\ srv_hist.started < MaxRequests
    /\ srv_hist' = [srv_hist EXCEPT !.started = @ + 1]
    /\ GetCall(c, id)
    /\ requests' = [requests EXCEPT
                       ![c] = [kind |-> kind, id |-> id, amount |-> amount,
                               acked |-> id \in srv_hist.created,
                               response |-> IF contains(id) THEN "none" ELSE "NOT_FOUND"]]
    /\ UNCHANGED <<evt_log, cmd_chan, cmd_rcv, projection, shutdown_signal>>

\* deposit_to_account and withdraw_from_account: NOT_FOUND unless the
\* projection contains the id, else get the entity from the factory.
HandlerStart(c, kind, id, amount) ==
    /\ shutdown_signal = "pending"
    /\ callers[c].pc = "idle"
    /\ srv_hist.started < MaxRequests
    /\ srv_hist' = [srv_hist EXCEPT !.started = @ + 1]
    /\ IF contains(id)
       THEN /\ GetCall(c, id)
            /\ requests' = [requests EXCEPT
                               ![c] = [kind |-> kind, id |-> id, amount |-> amount,
                                       acked |-> id \in srv_hist.created,
                                       response |-> "none"]]
       ELSE /\ requests' = [requests EXCEPT
                               ![c] = [kind |-> kind, id |-> id, amount |-> amount,
                                       acked |-> id \in srv_hist.created,
                                       response |-> "NOT_FOUND"]]
            /\ UNCHANGED fac_vars
    /\ UNCHANGED <<evt_log, cmd_chan, cmd_rcv, projection, shutdown_signal>>

deposit_to_account(c, id, amount) ==
    /\ HandlerStart(c, "deposit", id, amount)
    /\ UNCHANGED acc_vars

withdraw_from_account(c, id, amount) ==
    /\ HandlerStart(c, "withdraw", id, amount)
    /\ UNCHANGED acc_vars

\* The command of the request.
RequestCmd(r) ==
    IF r.kind = "create"
    THEN CmdCreate(r.id)
    ELSE IF r.kind = "deposit" THEN CmdDeposit(1, r.amount) ELSE CmdWithdraw(1, r.amount)

\* get() returned the EntityRef: account.handle_cmd(cmd) sends the command to
\* the entity, waiting while its channel is full.
HandlerSendsCmd(c) ==
    /\ callers[c].pc = "rcv"
    /\ account_rcv[c].ok
    /\ Cardinality(CmdsFor(account_rcv[c].ref)) < entity_cmd_buffer
    /\ callers' = [callers EXCEPT ![c].pc = "cmd",
                                  ![c].got = account_rcv[c],
                                  ![c].held = account_rcv[c].ref]
    /\ account_rcv' = [account_rcv EXCEPT ![c] = NoAccount]
    /\ cmd_chan' = Append(cmd_chan, [ref |-> account_rcv[c].ref, caller |-> c,
                                     cmd |-> RequestCmd(requests[c])])
    /\ UNCHANGED <<accounts, get_account_chan, worker, entities, fac_hist>>
    /\ UNCHANGED <<evt_log, cmd_rcv, requests, projection, shutdown_signal, srv_hist>>
    /\ UNCHANGED acc_vars

\* get() returned an error: INTERNAL_SERVER_ERROR.
HandlerGetFailed(c) ==
    /\ callers[c].pc = "rcv"
    /\ account_rcv[c] # NoAccount
    /\ ~account_rcv[c].ok
    /\ account_rcv' = [account_rcv EXCEPT ![c] = NoAccount]
    /\ HandlerReturns(c, "INTERNAL_SERVER_ERROR")
    /\ UNCHANGED <<accounts, get_account_chan, worker, entities>>
    /\ UNCHANGED <<evt_log, cmd_chan, cmd_rcv, projection, shutdown_signal, srv_hist>>
    /\ UNCHANGED acc_vars

\* HandlerResponds with a handler that puts the created id into the set of
\* the projection itself.
HandlerResponds_write_through(c) ==
    /\ callers[c].pc = "cmd"
    /\ cmd_rcv[c].sent
    /\ LET response ==
              IF cmd_rcv[c].lost
              THEN "INTERNAL_SERVER_ERROR"
              ELSE IF cmd_rcv[c].res.ok THEN "CREATED" ELSE "BAD_REQUEST"
           made == requests[c].kind = "create" /\ response = "CREATED"
       IN  /\ HandlerReturns(c, response)
           /\ srv_hist' =
                 IF made THEN [srv_hist EXCEPT !.created = @ \cup {requests[c].id}] ELSE srv_hist
           /\ projection' =
                 IF made
                 THEN [projection EXCEPT !.account_ids = @ \cup {requests[c].id}]
                 ELSE projection
    /\ cmd_rcv' = [cmd_rcv EXCEPT ![c] = NoReply]
    /\ UNCHANGED <<accounts, get_account_chan, worker, account_rcv>>
    /\ entities' = DropEntities
    /\ UNCHANGED <<evt_log, cmd_chan, shutdown_signal>>
    /\ UNCHANGED acc_vars

\* The entity replied: CREATED for Ok(Ok(_)), BAD_REQUEST for a command
\* error, INTERNAL_SERVER_ERROR when the entity is gone.
HandlerResponds(c) ==
    /\ callers[c].pc = "cmd"
    /\ cmd_rcv[c].sent
    /\ LET response ==
              IF cmd_rcv[c].lost
              THEN "INTERNAL_SERVER_ERROR"
              ELSE IF cmd_rcv[c].res.ok THEN "CREATED" ELSE "BAD_REQUEST"
       IN  /\ HandlerReturns(c, response)
           /\ srv_hist' =
                 IF requests[c].kind = "create" /\ response = "CREATED"
                 THEN [srv_hist EXCEPT !.created = @ \cup {requests[c].id}]
                 ELSE srv_hist
    /\ cmd_rcv' = [cmd_rcv EXCEPT ![c] = NoReply]
    /\ UNCHANGED <<accounts, get_account_chan, worker, account_rcv>>
    /\ entities' = DropEntities
    /\ UNCHANGED <<evt_log, cmd_chan, projection, shutdown_signal>>
    /\ UNCHANGED acc_vars

HandlerStep ==
    \/ \E c \in Callers : create_account(c)
    \/ \E c \in Callers, id \in AccountIds, amount \in RequestAmounts :
          deposit_to_account(c, id, amount)
    \/ \E c \in Callers, id \in AccountIds, amount \in RequestAmounts :
          withdraw_from_account(c, id, amount)
    \/ \E c \in Callers : HandlerSendsCmd(c)
    \/ \E c \in Callers : HandlerGetFailed(c)
    \/ \E c \in Callers : HandlerResponds(c)

ServerNext ==
    \/ HandlerStep
    \/ WorkerNext
    \/ EntityHandleCmd
    \/ ProjectionStep
    \/ ShutdownStep

\* The projection, the event log it reads and the shutdown signal.
ProjectionEnvNext ==
    \/ \E e \in TaggedEvts : EvtLogAppend(e)
    \/ ProjectionStep
    \/ ShutdownStep

\* The projection on a subscription that neither fails nor ends.
ProjectionLiveNext ==
    \/ \E e \in TaggedEvts : EvtLogAppend(e)
    \/ ProjectionQuery
    \/ ProjectionNext

(***************************************************************************)
(* Specifications                                                          *)
(***************************************************************************)
InitAccount == AccountInit /\ FactoryInit /\ ServerInit

\* One aggregate instance handling commands.
SpecAccount == InitAccount /\ [][AccountNext]_vars

\* One aggregate instance folding persisted events and handling commands.
SpecFold == InitAccount /\ [][FoldNext]_vars

Init == overflow_checks = FALSE /\ AccountIdle /\ FactoryInit /\ ServerInit

\* The account factory and its callers.
Spec == Init /\ [][FactoryNext]_vars

InitServer == overflow_checks \in BOOLEAN /\ AccountIdle /\ FactoryInit /\ ServerInit

\* The account factory whose worker may be stopped, with callers that wait
\* for their replies; a waiting caller is polled once the reply is there.
SpecFactoryStop ==
    Init /\ [][FactoryStopNext]_vars
         /\ \A c \in Callers : WF_vars(GetReceive(c))

\* The factory with a worker task and callers that are polled whenever they
\* can make progress.
FactoryLiveNext ==
    \/ \E c \in Callers, id \in AccountIds : Get(c, id)
    \/ \E c \in Callers : GetReceive(c)
    \/ \E c \in Callers : DropEntityRef(c)
    \/ WorkerNext

SpecFactoryLive ==
    Init /\ [][FactoryLiveNext]_vars
         /\ WF_vars(WorkerNext)
         /\ \A c \in Callers : WF_vars(GetReceive(c))

\* The server: request handlers, factory, entities, event log and projection.
SpecServer == InitServer /\ [][ServerNext]_vars

\* The projection task and the select of shutdown_signal are polled whenever
\* they can make progress; ctrl-c may never come.
SpecProjection ==
    Init /\ [][ProjectionEnvNext]_vars
         /\ WF_vars(ProjectionQuery \/ ProjectionQueryErr)
         /\ WF_vars(ProjectionNext)
         /\ WF_vars(shutdown_signal_terminated)

SpecProjectionLive ==
    Init /\ [][ProjectionLiveNext]_vars
         /\ WF_vars(ProjectionQuery)
         /\ WF_vars(ProjectionNext)

(***************************************************************************)
(* Claims about the Account aggregate, checked under SpecAccount.          *)
(***************************************************************************)
AccBalance == IF account.state.tag = "Created" THEN account.state.balance ELSE 0

\* C3: between two commands (every accepted command's event folded) the
\* balance equals the sum of the accepted deposits minus the sum of the
\* accepted withdraws, and is not negative.
C3_BalanceIsDepositsMinusWithdraws ==
    (pending = NoEvt /\ ~acc_panicked) =>
        /\ AccBalance = acc_hist.deposits - acc_hist.withdraws
        /\ AccBalance >= 0

\* C4: in Created with balance b, Withdraw(op, amt) is accepted iff amt <= b;
\* accepted it emits Withdrawn{op, old_balance = b, amount = amt} and folding
\* that event gives balance b - amt; rejected, the error is
\* InvalidWithdraw{balance = b, withdraw_amount = amt}.
C4_WithdrawAcceptedIffCovered ==
    (acc_last.op # "none" /\ acc_last.cmd.type = "Withdraw"
        /\ acc_last.pre.state.tag = "Created") =>
        LET b == acc_last.pre.state.balance
            amt == acc_last.cmd.amount
        IN  /\ acc_last.res.ok <=> amt <= b
            /\ acc_last.res.ok =>
                  acc_last.res = CmdOk(EvtWithdrawn(acc_last.cmd.id, b, amt), NoTag)
            /\ ~acc_last.res.ok => acc_last.res = CmdErr(InvalidWithdraw(b, amt))
            /\ acc_last.op # "panic"
            /\ acc_last.op = "evt" =>
                  /\ account.state = StateCreated(acc_last.pre.state.id, b - amt)
                  /\ (amt = b => account.state.balance = 0)

\* The boundary withdraw amt = b > 0 was accepted and folded to balance 0.
C4_Witness ==
    /\ acc_last.op = "evt"
    /\ acc_last.cmd.type = "Withdraw"
    /\ acc_last.pre.state.tag = "Created"
    /\ acc_last.cmd.amount = acc_last.pre.state.balance
    /\ acc_last.cmd.amount > 0
    /\ account.state.balance = 0

\* C5: Create is accepted exactly once, in NonExistent; a Create handled
\* after the Created event was folded fails with AlreadyCreated, emits no
\* event and leaves the aggregate (its balance included) as it was.
C5_CreateAcceptedOnce ==
    /\ acc_hist.creates <= 1
    /\ (account.state.tag = "Created" \/ pending.type = "Created") <=> acc_hist.creates = 1
    /\ (acc_last.op # "none" /\ acc_last.cmd.type = "Create") =>
          IF acc_last.pre.state.tag = "NonExistent"
          THEN acc_last.res.ok
          ELSE /\ acc_last.res = CmdErr(AlreadyCreated)
               /\ acc_last.op = "cmd"
               /\ pending = NoEvt
               /\ account = acc_last.pre

\* A second Create was rejected on an account holding money.
C5_Witness ==
    /\ acc_last.op = "cmd"
    /\ acc_last.cmd.type = "Create"
    /\ acc_last.pre.state.tag = "Created"
    /\ acc_last.pre.state.balance > 0
    /\ acc_last.res.err = AlreadyCreated
    /\ account.state.balance = acc_last.pre.state.balance

\* C6: in NonExistent every Deposit and every Withdraw, of any amount, is
\* rejected with NotYetCreated and emits no event; Create is accepted.
C6_NonExistentRejectsAllButCreate ==
    (acc_last.op # "none" /\ acc_last.pre.state.tag = "NonExistent") =>
        IF acc_last.cmd.type = "Create"
        THEN acc_last.res = CmdOk(EvtCreated(acc_last.cmd.id), ACCOUNT_LIFECYCLE_TAG)
        ELSE /\ acc_last.res = CmdErr(NotYetCreated)
             /\ acc_last.op = "cmd"
             /\ pending = NoEvt
             /\ account.state = NonExistent

\* A Deposit of amount 0 was rejected in NonExistent.
C6_Witness ==
    /\ acc_last.op = "cmd"
    /\ acc_last.pre.state.tag = "NonExistent"
    /\ acc_last.cmd.type = "Deposit"
    /\ acc_last.cmd.amount = 0
    /\ acc_last.res.err = NotYetCreated

\* C7: a step that handles a command, accepted or rejected, leaves the state
\* variant, id, balance and event counter as they were; the aggregate changes
\* only in a step that folds a pending event.
C7_HandleCmdLeavesAggregate ==
    [][/\ (acc_hist'.cmds # acc_hist.cmds) => (account' = account)
       /\ (account' # account) => (pending # NoEvt /\ pending' = NoEvt)]_vars

\* An accepted and a rejected command were handled with the aggregate intact.
C7_Witness ==
    /\ acc_last.op = "cmd"
    /\ acc_last.res.err.type = "InvalidWithdraw"
    /\ account = acc_last.pre
    /\ account.evt_count >= 2

\* C22: folding the Deposited event of an accepted Deposit(op, amt) never
\* leaves a balance below the one before it: balance + amt does not wrap.
C22_DepositNeverWraps ==
    (acc_last.op = "evt" /\ acc_last.cmd.type = "Deposit" /\ acc_last.res.ok) =>
        /\ account.state.balance >= acc_last.pre.state.balance
        /\ account.state.balance >= acc_last.cmd.amount

\* The balance that folding the events before the pending one gives: the
\* amounts of the accepted deposits less those of the accepted withdraws,
\* without the pending event's own amount, in u64 arithmetic.
FoldedBeforePending ==
    LET own == IF pending.type = "Deposited" THEN pending.amount
               ELSE IF pending.type = "Withdrawn" THEN 0 - pending.amount
               ELSE 0
    IN  (acc_hist.deposits - acc_hist.withdraws - own) % U64Modulus

\* C23: in the history one aggregate instance produces, the old_balance of a
\* Deposited or Withdrawn event is the balance that folding the events before
\* it gives, and a Withdrawn event never has an amount above its old_balance.
C23_OldBalanceIsFoldedBalance ==
    /\ (pending.type \in {"Deposited", "Withdrawn"}) =>
           /\ account.state.tag = "Created"
           /\ pending.old_balance = account.state.balance
           /\ pending.old_balance = FoldedBeforePending
    /\ (pending.type = "Withdrawn") => pending.amount <= pending.old_balance
    /\ (acc_last.op = "evt" /\ acc_last.evt.type = "Deposited") =>
           account.state.balance
               = (acc_last.evt.old_balance + acc_last.evt.amount) % U64Modulus
    /\ (acc_last.op = "evt" /\ acc_last.evt.type = "Withdrawn") =>
           account.state.balance = acc_last.evt.old_balance - acc_last.evt.amount

\* A Withdrawn event is pending after a Created, a Deposited and a Withdrawn
\* event were folded, with a balance above zero recorded in it.
C23_Witness ==
    /\ pending.type = "Withdrawn"
    /\ pending.amount > 0
    /\ pending.old_balance > pending.amount
    /\ account.evt_count = 3
    /\ acc_hist.withdraws > pending.amount

(***************************************************************************)
(* Claims about handle_evt, checked under SpecFold.                        *)
(***************************************************************************)
\* C17: a folded event increments evt_count by exactly one and nothing else
\* changes it; handle_evt returns a snapshot iff snapshot_after is Some(N) and
\* the incremented evt_count is a multiple of N, and the snapshot is the state
\* after the event was folded; with snapshot_after None there is no snapshot.
C17_SnapshotEveryNthEvent ==
    /\ [](acc_last.op = "evt" =>
             /\ account.evt_count = acc_last.pre.evt_count + 1
             /\ account.snapshot_after = acc_last.pre.snapshot_after
             /\ acc_last.snapshot.some <=>
                   /\ account.snapshot_after # NoSnapshotAfter
                   /\ account.evt_count % account.snapshot_after = 0
             /\ acc_last.snapshot.some => acc_last.snapshot = SomeSnapshot(account.state)
             /\ account.snapshot_after = NoSnapshotAfter => acc_last.snapshot = NoSnapshot)
    /\ [](acc_last.op \in {"cmd", "panic"} =>
             /\ account.evt_count = acc_last.pre.evt_count
             /\ acc_last.snapshot = NoSnapshot)

\* With a cadence of 2 the second event, a deposit, was folded and the
\* snapshot holds the balance after it.
C17_Witness ==
    /\ acc_last.op = "evt"
    /\ account.snapshot_after = 2
    /\ account.evt_count = 2
    /\ acc_last.evt.type = "Deposited"
    /\ acc_last.snapshot.some
    /\ acc_last.snapshot.state.balance > acc_last.pre.state.balance

\* Deposited or Withdrawn on NonExistent, Created on Created.
IllegalEvt(state, evt) ==
    IF state.tag = "NonExistent" THEN evt.type # "Created" ELSE evt.type = "Created"

\* C18: folding an event that is illegal for the state panics: state,
\* evt_count and snapshot_after are as before, no snapshot is returned, and
\* the entity takes no further step.
C18_IllegalEventIsFatal ==
    /\ []((acc_last.op \in {"evt", "panic"}
             /\ IllegalEvt(acc_last.pre.state, acc_last.evt)) =>
             /\ acc_last.op = "panic"
             /\ acc_panicked
             /\ account = acc_last.pre
             /\ acc_last.snapshot = NoSnapshot)
    /\ [][~acc_panicked]_vars

\* Created was folded on a Created account whose next event was due for a
\* snapshot.
C18_Witness ==
    /\ acc_last.op = "panic"
    /\ acc_last.evt.type = "Created"
    /\ acc_last.pre.state.tag = "Created"
    /\ account.snapshot_after = 1
    /\ account.evt_count = 1
    /\ acc_panicked

\* C19: an account in state Created stays Created, with the id it was created
\* with, in every step: whatever command is handled and whatever event is
\* folded.
C19_CreatedIsPermanent ==
    [][account.state.tag = "Created" =>
          /\ account'.state.tag = "Created"
          /\ account'.state.id = account.state.id]_vars

\* A Deposited event carrying another id was folded into a Created account.
C19_Witness ==
    /\ acc_last.op = "evt"
    /\ acc_last.evt.type = "Deposited"
    /\ acc_last.pre.state.tag = "Created"
    /\ acc_last.evt.id # acc_last.pre.state.id
    /\ account.state.id = acc_last.pre.state.id
    /\ account.state.balance > 0

(***************************************************************************)
(* Claims about the account factory, checked under Spec.                   *)
(***************************************************************************)
\* C1: at every point there is at most one live entity (spawned and not yet
\* terminated) for any account id.
C1_AtMostOneLiveEntityPerId ==
    \A id \in AccountIds : Cardinality(LiveEntitiesOf(id)) <= 1

\* Two get(id) calls were issued while no entity of id existed, the second
\* while the first was waiting, both were answered, and id was not evicted
\* since.
ConcurrentFreshGets(c, d) ==
    /\ d \in callers[c].peers
    /\ callers[c].pc = "done"
    /\ callers[d].pc = "done"
    /\ callers[c].fresh
    /\ callers[d].fresh
    /\ fac_hist.evicted \cap {c, d} = {}

\* C2 as stated: concurrent get(id) calls issued while no entity of id exists,
\* with no eviction of id in between, lead to exactly one construction of id,
\* and every call receives a handle to that one entity.
C2_ConcurrentGetsOneConstruction ==
    \A c, d \in Callers :
        ConcurrentFreshGets(c, d) =>
            /\ callers[c].got.ok
            /\ callers[d].got.ok
            /\ callers[c].got.ref = callers[d].got.ref
            /\ fac_hist.spawned[d] = 1
            /\ fac_hist.failed[d] = 0

\* C2 as amended: of such calls at most one construction of id succeeds and
\* all handles received refer to that one entity; a call is answered with
\* Error::SpawnEntity only after a construction of id failed, and when none
\* failed exactly one construction is performed and every call gets a handle.
C2_ConcurrentGetsShareOneEntity ==
    \A c, d \in Callers :
        ConcurrentFreshGets(c, d) =>
            /\ fac_hist.spawned[d] <= 1
            /\ (callers[c].got.ok /\ callers[d].got.ok) =>
                  /\ callers[c].got.ref = callers[d].got.ref
                  /\ fac_hist.spawned[d] = 1
            /\ \A x \in {c, d} :
                  ~callers[x].got.ok =>
                      /\ callers[x].got = AccountErr("SpawnEntity")
                      /\ fac_hist.failed[d] >= 1
            /\ fac_hist.failed[d] = 0 =>
                  /\ callers[c].got.ok
                  /\ callers[d].got.ok
                  /\ fac_hist.spawned[d] = 1

\* Two concurrent calls for a new id hold the same entity, spawned once.
C2_Witness ==
    \E c, d \in Callers :
        /\ ConcurrentFreshGets(c, d)
        /\ callers[c].held # NoRef
        /\ callers[c].held = callers[d].held
        /\ fac_hist.spawned[d] = 1
        /\ fac_hist.failed[d] = 0

\* C8: the number of entries in the cache never exceeds cache_capacity.
C8_CacheWithinCapacity == Len(accounts) <= cache_capacity

\* The cache is full after more ids than its capacity were asked for.
C8_Witness ==
    /\ Len(accounts) = cache_capacity
    /\ Len(fac_hist.recency) > cache_capacity

\* How long ago id was last used: its place in the order of last uses.
Rank(id) == CHOOSE i \in 1 .. Len(fac_hist.recency) : fac_hist.recency[i] = id

\* C9: an entry leaves the cache only when a miss finds the cache full, and it
\* is the entry whose last get() (hit or insertion) is the oldest; a get() for
\* a resident id constructs nothing and returns the resident entity, a get()
\* for an id that is not resident (never asked for, or evicted) constructs.
C9_EvictsLeastRecentlyUsed ==
    [][/\ \A id \in LruIds(accounts) \ LruIds(accounts') :
             /\ worker.pc = "spawning"
             /\ Len(accounts) = cache_capacity
             /\ \A j \in LruIds(accounts) : Rank(j) <= Rank(id)
       /\ (worker.pc = "blocking" /\ worker'.pc # "blocking") =>
             IF worker.id \in LruIds(accounts)
             THEN /\ LiveEntities' \subseteq LiveEntities
                  /\ LruIds(accounts') = LruIds(accounts)
                  /\ worker.alive =>
                        account_rcv'[worker.caller] = AccountOk(LruPeek(accounts, worker.id))
             ELSE worker'.pc = "spawning"
       /\ (worker.pc = "spawning" /\ worker'.pc # "spawning"
             /\ LiveEntities' \ LiveEntities = {}) =>
             accounts' = accounts]_vars

\* Id 1 was served from the cache and then a miss evicted id 2, the least
\* recently used, keeping id 1.
C9_Witness ==
    /\ Len(accounts) = 2
    /\ accounts[1].id = 3
    /\ accounts[2].id = 1
    /\ fac_hist.recency = <<3, 1, 2>>
    /\ \E c \in Callers :
          /\ callers[c].pc = "done"
          /\ callers[c].held = accounts[2]
          /\ ~callers[c].fresh
          /\ fac_hist.spawned[c] = 0

\* C14: when the construction of the entity for id fails on a miss, the
\* caller's get() is answered with Error::SpawnEntity and the cache is exactly
\* as it was: id is not inserted, no entry is evicted and the order of the
\* entries is unchanged.
C14_FailedConstructionLeavesCache ==
    [][(/\ worker.pc = "spawning"
        /\ worker'.pc # "spawning"
        /\ LiveEntities' \ LiveEntities = {}) =>
           /\ accounts' = accounts
           /\ worker.id \notin LruIds(accounts')
           /\ LiveEntities' = LiveEntities
           /\ worker.alive => account_rcv'[worker.caller] = AccountErr("SpawnEntity")
           /\ \A c \in Callers \ {worker.caller} : account_rcv'[c] = account_rcv[c]]_vars

\* A get() of an id was answered with Error::SpawnEntity while the cache was
\* full of other ids.
C14_Witness ==
    \E c \in Callers :
        /\ callers[c].pc = "done"
        /\ callers[c].got = AccountErr("SpawnEntity")
        /\ callers[c].held = NoRef
        /\ Len(accounts) = cache_capacity
        /\ callers[c].id \notin LruIds(accounts)
        /\ fac_hist.failed[c] = 1

\* C15: once the worker has stopped and the request channel is closed, a
\* get() issued afterwards returns Error::Send, a get() whose request was
\* queued or in the worker's hands and not answered returns Error::Rcv, and
\* no get() stays waiting.
C15_ClosedChannelFailsGets ==
    /\ [](worker.pc = "stopped" =>
             /\ get_account_chan = <<>>
             /\ \A c \in Callers : callers[c].pc = "rcv" => account_rcv[c] # NoAccount)
    /\ [][worker.pc = "stopped" =>
             \A c \in Callers :
                 (callers[c].pc = "idle" /\ callers'[c].pc # "idle") =>
                     /\ callers'[c].pc = "done"
                     /\ callers'[c].got = AccountErr("Send")]_vars
    /\ [][(worker.pc # "stopped" /\ worker'.pc = "stopped") =>
             \A c \in Callers :
                 (callers[c].pc = "rcv" /\ account_rcv[c] = NoAccount) =>
                     account_rcv'[c] = AccountErr("Rcv")]_vars
    /\ \A c \in Callers :
          (worker.pc = "stopped" /\ callers[c].pc = "rcv") ~> (callers[c].pc # "rcv")

\* After the worker stopped, one get() that was queued returned Error::Rcv and
\* one issued later returned Error::Send.
C15_Witness ==
    /\ worker.pc = "stopped"
    /\ \E c, d \in Callers :
          /\ callers[c].pc = "done"
          /\ callers[c].got = AccountErr("Rcv")
          /\ callers[d].pc = "done"
          /\ callers[d].got = AccountErr("Send")

\* C20: while the entity of one id is being constructed and a get() for
\* another id, issued later, is in the channel, the worker is free to take
\* that request and answer it.
C20_WorkerFreeDuringConstruction ==
    (/\ worker.pc = "spawning"
     /\ get_account_chan # <<>>
     /\ Head(get_account_chan).id # worker.id) => ENABLED WorkerRecv

\* C21: a request whose caller dropped its reply receiver is processed like
\* any other: the worker takes it from the channel, a hit promotes the entry,
\* a miss constructs the entity and inserts it into the cache (or fails and
\* leaves the cache), nothing reaches a reply channel, and the worker is back
\* at recv() with the requests behind it still in the channel.
C21_AbandonedGetIsCompleted ==
    /\ []((worker.pc = "recv" /\ get_account_chan # <<>>) => ENABLED WorkerRecv)
    /\ [][(worker.pc = "recv" /\ Len(get_account_chan') < Len(get_account_chan)) =>
             LET r == Head(get_account_chan)
             IN  /\ worker'.pc = "blocking"
                 /\ worker'.id = r.id
                 /\ get_account_chan' = Tail(get_account_chan)]_vars
    /\ [][(worker.pc = "blocking" /\ ~worker.alive /\ worker'.pc # "blocking") =>
             IF worker.id \in LruIds(accounts)
             THEN /\ accounts' = LruPromote(accounts, worker.id)
                  /\ account_rcv' = account_rcv
                  /\ worker' = WorkerIdle
             ELSE /\ worker'.pc = "spawning"
                  /\ worker'.id = worker.id
                  /\ accounts' = accounts]_vars
    /\ [][(worker.pc = "spawning" /\ ~worker.alive /\ worker'.pc # "spawning") =>
             /\ worker' = WorkerIdle
             /\ account_rcv' = account_rcv
             /\ get_account_chan' = get_account_chan
             /\ \/ accounts' = accounts
                \/ \E ref \in LiveEntities' \ LiveEntities :
                      /\ ref.id = worker.id
                      /\ accounts' = LruInsert(accounts, ref)]_vars

\* The worker is constructing the entity of a request whose caller has gone,
\* with the request of another caller waiting in the channel.
C21_Witness ==
    /\ worker.pc = "spawning"
    /\ ~worker.alive
    /\ callers[worker.caller].pc = "idle"
    /\ get_account_chan # <<>>
    /\ Head(get_account_chan).alive
    /\ Head(get_account_chan).id # worker.id

(***************************************************************************)
(* Claims about the account factory, checked under SpecFactoryLive.        *)
(***************************************************************************)
\* Caller d holds the answer Error::SpawnEntity of its get().
SpawnFailed(d) ==
    /\ callers[d].pc = "done"
    /\ callers[d].got = AccountErr("SpawnEntity")

\* C24: a failed construction leaves the factory working: the step that
\* fails puts the worker back at recv() with the write lock released and the
\* queued requests in place; while a caller holds the error the worker has
\* not stopped, takes the next request, can take the lock and get() can be
\* called for the failed id; the failed id is not resident unless a later
\* construction of it succeeded, so a later get() for it constructs again;
\* and every get() waiting after the failure is answered.
C24_FailedConstructionLeavesFactoryWorking ==
    /\ [][(/\ worker.pc = "spawning"
           /\ worker'.pc # "spawning"
           /\ LiveEntities' \ LiveEntities = {}) =>
              /\ worker' = WorkerIdle
              /\ ~WriteLockHeld'
              /\ get_account_chan' = get_account_chan]_vars
    /\ [](\A d \in Callers :
             SpawnFailed(d) =>
                 /\ worker.pc # "stopped"
                 /\ (worker.pc = "recv" /\ get_account_chan # <<>>) => ENABLED WorkerRecv
                 /\ worker.pc = "blocking" => ENABLED (GetOrInsertHit \/ GetOrInsertMiss)
                 /\ \A c \in Callers :
                       (callers[c].pc = "idle" /\ Len(get_account_chan) < cache_buffer) =>
                           ENABLED Get(c, callers[d].id)
                 /\ fac_hist.spawned[d] = 0 => callers[d].id \notin LruIds(accounts))
    /\ [][\A d \in Callers :
             (/\ SpawnFailed(d)
              /\ worker.pc = "blocking"
              /\ worker.id = callers[d].id
              /\ worker.id \notin LruIds(accounts)
              /\ worker'.pc # "blocking") =>
                 /\ worker'.pc = "spawning"
                 /\ worker'.id = worker.id]_vars
    /\ \A c, d \in Callers :
          (SpawnFailed(d) /\ callers[c].pc = "rcv") ~>
              (account_rcv[c] # NoAccount \/ callers[c].pc # "rcv")

\* A caller still holds Error::SpawnEntity for an id while another caller,
\* whose get() for the same id began after that failure, holds the entity
\* that a second construction of the id produced.
C24_Witness ==
    \E c, d \in Callers :
        /\ SpawnFailed(d)
        /\ fac_hist.failed[d] = 1
        /\ callers[c].pc = "done"
        /\ callers[c].id = callers[d].id
        /\ callers[c].fresh
        /\ callers[c].got.ok
        /\ callers[c].held.id = callers[d].id
        /\ fac_hist.failed[c] = 0
        /\ fac_hist.spawned[c] = 1
        /\ worker.pc = "recv"

(***************************************************************************)
(* Claims about the projection and the server, checked under SpecServer.   *)
(***************************************************************************)
\* The events of the lifecycle tag the projection's task has processed.
ProjectionSeen ==
    SubSeq(EvtsByTag(evt_log, ACCOUNT_LIFECYCLE_TAG), 1, projection.seq)

\* C10: contains(id) is true only if a Created(id) event was appended to the
\* lifecycle-tagged events of the log and the projection's task has already
\* taken and processed it; a request answered NOT_FOUND found the id missing.
C10_ContainsOnlyProjectedCreated ==
    /\ projection.seq <= Len(EvtsByTag(evt_log, ACCOUNT_LIFECYCLE_TAG))
    /\ \A id \in AccountIds :
          contains(id) =>
              \E i \in 1 .. Len(ProjectionSeen) :
                  /\ ProjectionSeen[i].evt = EvtCreated(id)
                  /\ ProjectionSeen[i].id = id

\* A create request was answered CREATED, its Created event is in the log,
\* contains(id) is still false and a later deposit or withdraw for the id was
\* answered NOT_FOUND.
C10_Witness ==
    \E c \in Callers :
        /\ requests[c].kind \in {"deposit", "withdraw"}
        /\ requests[c].acked
        /\ requests[c].response = "NOT_FOUND"
        /\ ~contains(requests[c].id)
        /\ \E i \in 1 .. Len(evt_log) : evt_log[i].evt = EvtCreated(requests[c].id)

(***************************************************************************)
(* Claims about the projection task, checked under SpecProjectionLive and  *)
(* SpecProjection.                                                         *)
(***************************************************************************)
\* The lifecycle-tagged events of the log hold Created(id).
CreatedAppended(id) ==
    \E i \in 1 .. Len(evt_log) :
        /\ evt_log[i].tag = ACCOUNT_LIFECYCLE_TAG
        /\ evt_log[i].evt = EvtCreated(id)

\* C11: with the projection task scheduled fairly and a subscription that
\* keeps delivering, every Created(id) appended to the lifecycle-tagged events
\* is eventually inserted into the set, and from then on contains(id) stays
\* true: the set never loses an id.
C11_CreatedEventuallyContained ==
    /\ \A id \in AccountIds : CreatedAppended(id) ~> [](contains(id))
    /\ [][projection.account_ids \subseteq projection'.account_ids]_vars

\* C12: a step of the task that takes an event other than Created from the
\* subscription leaves the set as it is and the task consuming.
C12_NonCreatedIgnored ==
    [][(/\ projection'.seq = projection.seq + 1
        /\ EvtsByTag(evt_log, ACCOUNT_LIFECYCLE_TAG)[projection'.seq].evt.type # "Created") =>
           /\ projection'.pc = "running"
           /\ projection'.account_ids = projection.account_ids]_vars

\* C13: a task that is through with its subscription has resolved the
\* termination future; the shutdown signal fires once, for the projection only
\* when that future is resolved, and it does fire after the task ended.
C13_TerminationRaisesShutdown ==
    /\ [](projection.pc = "terminated" => projection.terminated_rcv)
    /\ [](projection.terminated_rcv => projection.pc = "terminated")
    /\ [][shutdown_signal' # shutdown_signal =>
             /\ shutdown_signal = "pending"
             /\ shutdown_signal' = "projection_terminated" => projection.terminated_rcv]_vars
    /\ (projection.pc = "terminated") ~> (shutdown_signal # "pending")

\* The stream ended after an id was inserted and the shutdown signal fired for
\* the projection.
C13_Witness ==
    /\ projection.pc = "terminated"
    /\ projection.account_ids # {}
    /\ shutdown_signal = "projection_terminated"

(***************************************************************************)
(* Claims about the request handlers, checked under SpecServer.            *)
(***************************************************************************)
\* The request get() puts into the channel of the factory for caller c.
GetRequest(c, id) == [id |-> id, caller |-> c, alive |-> TRUE]

\* C16: a deposit or withdraw request for an id with contains(id) false is
\* answered NOT_FOUND in a step that leaves the factory (channel, worker,
\* cache and its order, entities) and the command channel as they were; with
\* contains(id) true the handler calls get(id); create_account asks nothing of
\* the projection and always calls get() for its newly generated id.
C16_NotFoundWithoutFactory ==
    [][/\ srv_hist'.started # srv_hist.started =>
             \E c \in Callers :
                 /\ callers[c].pc = "idle"
                 /\ LET q == requests'[c]
                    IN  \/ /\ q.kind = "create"
                           /\ q.id = srv_hist.next_id
                           /\ q.response = "none"
                           /\ get_account_chan' = Append(get_account_chan, GetRequest(c, q.id))
                        \/ /\ q.kind \in {"deposit", "withdraw"}
                           /\ ~contains(q.id)
                           /\ q.response = "NOT_FOUND"
                           /\ fac_vars' = fac_vars
                           /\ cmd_chan' = cmd_chan
                           /\ evt_log' = evt_log
                        \/ /\ q.kind \in {"deposit", "withdraw"}
                           /\ contains(q.id)
                           /\ q.response = "none"
                           /\ get_account_chan' = Append(get_account_chan, GetRequest(c, q.id))
       /\ \A c \in Callers :
             (requests'[c] # requests[c] /\ requests'[c].response = "NOT_FOUND") =>
                 srv_hist'.started # srv_hist.started]_vars

\* A withdraw for an id that was never created was answered NOT_FOUND while
\* the cache held the entity of another id, and a create for a new id is
\* waiting in get().
C16_Witness ==
    \E c, d \in Callers :
        /\ requests[c].kind = "withdraw"
        /\ requests[c].response = "NOT_FOUND"
        /\ callers[c].pc = "idle"
        /\ ~CreatedAppended(requests[c].id)
        /\ accounts # <<>>
        /\ requests[d].kind = "create"
        /\ callers[d].pc = "rcv"

====
